---- MODULE Spec2Model ----
(***************************************************************************)
(* Model of epg_script.py: filter_and_build_epg aggregates the channel and *)
(* programme elements of several remote XMLTV documents into one tree,     *)
(* keeping the elements whose identifier is in the tvg-id allow-list and   *)
(* rewriting the title of two special-cased programmes.                    *)
(*                                                                         *)
(* An xml.etree Element is a record [tag, attrib, text, children]; attrib  *)
(* has the two keys the script reads, and the value None stands for a      *)
(* missing attribute (what Element.get returns) or a missing text.         *)
(***************************************************************************)
EXTENDS Integers, Sequences, FiniteSets, TLC

\* ------------------------------------------------------------------ bounds
MaxUrls == 2          \* longest source list
MaxElems == 2         \* elements served over a whole run of Spec
MaxTitleDocLen == 1   \* elements served over a whole run of SpecTitles

\* --------------------------------------------------------------- constants
None == "<None>"
SAVE_AS_GZ == TRUE
NoSubtitle == "No subtitle"
SpecialTitles == {"NHL Hockey", "Live: NFL Football"}

\* A url is the sequence of its pieces, the last one being its suffix.
PLAIN == <<"http://m3u4u.com/xml/", "5g28nezee8sv3dk7yzpe">>
GZ == <<"https://epgshare01.online/epgshare01/epg_ripper_FANDUEL1", ".xml", ".gz">>
URLS == {PLAIN, GZ}
endswith(url, suffix) == Len(url) > 0 /\ url[Len(url)] = suffix

Ids == {"a", "b"}

\* ---------------------------------------------------------------- elements
Element(tag, id, channel, text, children) ==
    [tag |-> tag, attrib |-> [id |-> id, channel |-> channel],
     text |-> text, children |-> children]
Leaf(tag, text) == Element(tag, None, None, text, <<>>)

\* Element.get(key): the attribute's value, None when it is missing
get(e, key) == e.attrib[key]

RECURSIVE findall(_, _)
\* Element.findall(tag) on a children list: the direct children with that
\* tag, in document order
findall(children, tag) ==
    IF children = <<>> THEN <<>>
    ELSE IF Head(children).tag = tag
         THEN <<Head(children)>> \o findall(Tail(children), tag)
         ELSE findall(Tail(children), tag)

\* Element.find(tag): index of the first direct child with that tag, 0 for None
find(e, tag) ==
    IF \E n \in DOMAIN e.children : e.children[n].tag = tag
    THEN CHOOSE n \in DOMAIN e.children :
            /\ e.children[n].tag = tag
            /\ \A m \in 1..(n - 1) : e.children[m].tag # tag
    ELSE 0

\* bool(Element): an Element is truthy iff it has child elements; None is falsy
truth(e, n) == n # 0 /\ Len(e.children[n].children) # 0

\* line 78: title.text (the guard of line 77 makes the else branch dead)
title_text(p) == p.children[find(p, "title")].text

\* line 82: subtitle.text if subtitle else 'No subtitle'
subtitle_text(p) ==
    LET subtitle == find(p, "sub-title")
    IN IF truth(p, subtitle) THEN p.children[subtitle].text ELSE NoSubtitle

\* a prefix test in place of the equality of line 80
is_special_prefix(t) ==
    t = "NHL Hockey" \/ t = "Live: NFL Football" \/ t = "NHL Hockey Live"

\* line 80
is_special(t) == t = "NHL Hockey" \/ t = "Live: NFL Football"

\* str + str; Python raises TypeError when an operand is None
can_concat(a, b) == a # None /\ b # None

\* line 83: programme.find('title').text = title_text + " " + subtitle_text
rewritten(p) ==
    [p EXCEPT !.children[find(p, "title")].text =
                  title_text(p) \o " " \o subtitle_text(p)]

\* ------------------------------------------------------- element universes
ChA == Element("channel", "a", None, None, <<Leaf("display-name", "A")>>)
ChB == Element("channel", "b", None, None, <<Leaf("display-name", "B")>>)
ChNoId == Element("channel", None, "a", None, <<Leaf("display-name", "A")>>)
PrA == Element("programme", None, "a", None, <<Leaf("title", "Regular Show")>>)
PrB == Element("programme", None, "b", None, <<Leaf("title", "NHL Hockey")>>)
PrNoChannel == Element("programme", "a", None, None, <<Leaf("title", "Regular Show")>>)
PrNoTitle == Element("programme", None, "a", None, <<Leaf("desc", "d")>>)
PrNoText == Element("programme", None, "a", None,
                    <<Leaf("title", "Live: NFL Football"),
                      Element("sub-title", None, None, None, <<Leaf("i", "x")>>)>>)
BasicElements == {ChA, ChB, ChNoId, PrA, PrB, PrNoChannel, PrNoTitle, PrNoText}

TitleTexts == {None, "NHL Hockey", "Live: NFL Football", "Regular Show", "NHL Hockey Live"}
TitleNodes == {<<>>} \cup {<<Leaf("title", t)>> : t \in TitleTexts}
SubTexts == {None, "Rangers vs Bruins"}
SubNodes == {<<>>}
            \cup {<<Leaf("sub-title", s)>> : s \in SubTexts}
            \cup {<<Element("sub-title", None, None, s, <<Leaf("i", "x")>>)>> : s \in SubTexts}
Programmes ==
    {Element("programme", None, c, None, t \o s \o <<Leaf("desc", "d")>>) :
        c \in {"a", None}, t \in TitleNodes, s \in SubNodes}
TitleElements == Programmes \cup {ChA, ChNoId}

RECURSIVE SeqsUpTo(_, _)
SeqsUpTo(S, n) ==
    IF n = 0 THEN {<<>>}
    ELSE LET shorter == SeqsUpTo(S, n - 1)
         IN shorter \cup {Append(s, x) : s \in shorter, x \in S}

Range(s) == {s[n] : n \in DOMAIN s}

\* ------------------------------------------------------------------- state
VARIABLES
    urls,           \* the argument of filter_and_build_epg
    catalogue,      \* the elements the hosts' documents are made of
    remaining,      \* how many more elements the hosts serve in this run
    pc,             \* position in filter_and_build_epg
    valid_tvg_ids,  \* the allow-list
    root,           \* children of the output root ET.Element('tv')
    i,              \* index in urls of the source being processed
    epg_data,       \* <<children of the parsed root>>, <<>> for None
    j,              \* index in the findall list being iterated
    results,        \* per source fetched so far: "ok" or "failed"
    seen,           \* id -> channel elements with that id in the sources parsed so far
    prov,           \* per element of root: the source and position it came from
    raised,         \* the uncaught exception that ended the run, "none" if none
    written         \* the output artifacts written

vars == <<urls, catalogue, remaining, pc, valid_tvg_ids, root, i, epg_data, j,
          results, seen, prov, raised, written>>

Start ==
    /\ pc = "open"
    /\ valid_tvg_ids = {}
    /\ root = <<>>
    /\ i = 1
    /\ epg_data = <<>>
    /\ j = 1
    /\ results = <<>>
    /\ seen = [id \in Ids |-> 0]
    /\ prov = <<>>
    /\ raised = "none"
    /\ written = {}

Init ==
    /\ urls \in SeqsUpTo(URLS, MaxUrls)
    /\ catalogue = BasicElements
    /\ remaining = MaxElems
    /\ Start

InitTitles ==
    /\ urls \in {<<PLAIN>>, <<GZ>>}
    /\ catalogue = TitleElements
    /\ remaining = MaxTitleDocLen
    /\ Start

\* -------------------------------------------------------- lines 56-59
\* The file's stripped lines become the allow-list.
LoadOk ==
    /\ pc = "open"
    /\ \E ids \in SUBSET Ids : valid_tvg_ids' = ids
    /\ pc' = "fetch"
    /\ UNCHANGED <<urls, catalogue, remaining, root, i, epg_data, j, results, seen, prov,
                   raised, written>>

\* the failure is swallowed and the run goes on with an empty allow-list
load_failed_swallowed ==
    /\ pc' = "fetch"
    /\ raised' = "IOError: tvg-ids"
    /\ UNCHANGED <<urls, catalogue, remaining, valid_tvg_ids, root, i, epg_data, j, results,
                   seen, prov, written>>

\* open() raises: nothing catches it
load_failed ==
    /\ pc' = "aborted"
    /\ raised' = "IOError: tvg-ids"
    /\ UNCHANGED <<urls, catalogue, remaining, valid_tvg_ids, root, i, epg_data, j, results,
                   seen, prov, written>>

LoadFail ==
    /\ pc = "open"
    /\ load_failed

\* -------------------------------------------------------- lines 61-65, 18-47
FetchOk ==
    /\ pc = "fetch"
    /\ i <= Len(urls)
    /\ \E doc \in SeqsUpTo(catalogue, remaining) :
          /\ epg_data' = <<doc>>
          /\ remaining' = remaining - Len(doc)
          /\ seen' = [id \in Ids |->
                        seen[id] + Cardinality({n \in DOMAIN doc :
                                      doc[n].tag = "channel" /\ get(doc[n], "id") = id})]
    /\ results' = Append(results, "ok")
    /\ pc' = "channels"
    /\ j' = 1
    /\ UNCHANGED <<urls, catalogue, valid_tvg_ids, root, i, prov, raised, written>>

\* the exception of a failed fetch is not caught
fetch_failed_uncaught ==
    /\ epg_data' = <<>>
    /\ results' = Append(results, "failed")
    /\ pc' = "aborted"
    /\ raised' = "RequestException"
    /\ UNCHANGED <<urls, catalogue, remaining, valid_tvg_ids, root, i, j, seen, prov,
                   written>>

\* fetch_and_extract_xml prints and returns None; line 65 continues
fetch_failed ==
    /\ epg_data' = <<>>
    /\ results' = Append(results, "failed")
    /\ i' = i + 1
    /\ pc' = "fetch"
    /\ UNCHANGED <<urls, catalogue, remaining, valid_tvg_ids, root, j, seen, prov,
                   raised, written>>

FetchTransportError ==
    /\ pc = "fetch"
    /\ i <= Len(urls)
    /\ fetch_failed

FetchDecompressError ==
    /\ pc = "fetch"
    /\ i <= Len(urls)
    /\ endswith(urls[i], ".gz")
    /\ fetch_failed

FetchParseError ==
    /\ pc = "fetch"
    /\ i <= Len(urls)
    /\ fetch_failed

\* the for loop over urls is exhausted
UrlsDone ==
    /\ pc = "fetch"
    /\ i > Len(urls)
    /\ pc' = "write"
    /\ UNCHANGED <<urls, catalogue, remaining, valid_tvg_ids, root, i, epg_data, j, results,
                   seen, prov, raised, written>>

\* -------------------------------------------------------- lines 67-71
channels == findall(epg_data[1], "channel")
programmes == findall(epg_data[1], "programme")

\* an element without the attribute passes the filter
matches_or_missing(tvg_id) == tvg_id = None \/ tvg_id \in valid_tvg_ids

\* line 69 and line 75: tvg_id in valid_tvg_ids
matches(tvg_id) == tvg_id \in valid_tvg_ids

\* root.insert(0, element)
insert_first(element, kind) ==
    /\ root' = <<element>> \o root
    /\ prov' = <<[src |-> i, kind |-> kind, pos |-> j]>> \o prov

\* root.append(element)
append(element, kind) ==
    /\ root' = Append(root, element)
    /\ prov' = Append(prov, [src |-> i, kind |-> kind, pos |-> j])

\* a channel whose id is already in the output is not appended again
ChannelAppendOnce ==
    /\ pc = "channels"
    /\ j <= Len(channels)
    /\ matches(get(channels[j], "id"))
    /\ IF \E n \in DOMAIN root :
             root[n].tag = "channel" /\ get(root[n], "id") = get(channels[j], "id")
       THEN UNCHANGED <<root, prov>>
       ELSE append(channels[j], "channel")
    /\ j' = j + 1
    /\ UNCHANGED <<urls, catalogue, remaining, pc, valid_tvg_ids, i, epg_data, results,
                   seen, raised, written>>

ChannelAppend ==
    /\ pc = "channels"
    /\ j <= Len(channels)
    /\ matches(get(channels[j], "id"))
    /\ append(channels[j], "channel")
    /\ j' = j + 1
    /\ UNCHANGED <<urls, catalogue, remaining, pc, valid_tvg_ids, i, epg_data, results,
                   seen, raised, written>>

ChannelSkip ==
    /\ pc = "channels"
    /\ j <= Len(channels)
    /\ ~matches(get(channels[j], "id"))
    /\ j' = j + 1
    /\ UNCHANGED <<urls, catalogue, remaining, pc, valid_tvg_ids, root, i, epg_data, results,
                   seen, prov, raised, written>>

ChannelsDone ==
    /\ pc = "channels"
    /\ j > Len(channels)
    /\ pc' = "programmes"
    /\ j' = 1
    /\ UNCHANGED <<urls, catalogue, remaining, valid_tvg_ids, root, i, epg_data, results,
                   seen, prov, raised, written>>

\* -------------------------------------------------------- lines 73-85
ProgrammeSkip ==
    /\ pc = "programmes"
    /\ j <= Len(programmes)
    /\ ~matches(get(programmes[j], "channel"))
    /\ j' = j + 1
    /\ UNCHANGED <<urls, catalogue, remaining, pc, valid_tvg_ids, root, i, epg_data, results,
                   seen, prov, raised, written>>

\* line 77: title is None, so the block holding root.append is not entered
ProgrammeNoTitle ==
    /\ pc = "programmes"
    /\ j <= Len(programmes)
    /\ matches(get(programmes[j], "channel"))
    /\ find(programmes[j], "title") = 0
    /\ j' = j + 1
    /\ UNCHANGED <<urls, catalogue, remaining, pc, valid_tvg_ids, root, i, epg_data, results,
                   seen, prov, raised, written>>

ProgrammeAppend ==
    /\ pc = "programmes"
    /\ j <= Len(programmes)
    /\ matches(get(programmes[j], "channel"))
    /\ find(programmes[j], "title") # 0
    /\ ~is_special(title_text(programmes[j]))
    /\ append(programmes[j], "programme")
    /\ j' = j + 1
    /\ UNCHANGED <<urls, catalogue, remaining, pc, valid_tvg_ids, i, epg_data, results,
                   seen, raised, written>>

ProgrammeRewrite ==
    /\ pc = "programmes"
    /\ j <= Len(programmes)
    /\ matches(get(programmes[j], "channel"))
    /\ find(programmes[j], "title") # 0
    /\ is_special(title_text(programmes[j]))
    /\ can_concat(title_text(programmes[j]), subtitle_text(programmes[j]))
    /\ append(rewritten(programmes[j]), "programme")
    /\ j' = j + 1
    /\ UNCHANGED <<urls, catalogue, remaining, pc, valid_tvg_ids, i, epg_data, results,
                   seen, raised, written>>

\* line 83 raises TypeError (str + None): nothing catches it
ProgrammeTypeError ==
    /\ pc = "programmes"
    /\ j <= Len(programmes)
    /\ matches(get(programmes[j], "channel"))
    /\ find(programmes[j], "title") # 0
    /\ is_special(title_text(programmes[j]))
    /\ ~can_concat(title_text(programmes[j]), subtitle_text(programmes[j]))
    /\ pc' = "aborted"
    /\ raised' = "TypeError"
    /\ UNCHANGED <<urls, catalogue, remaining, valid_tvg_ids, root, i, epg_data, j, results,
                   seen, prov, written>>

\* end of the loop body: epg_data and the element loops' variables are dead
\* until lines 63, 67 and 73 rebind them
ProgrammesDone ==
    /\ pc = "programmes"
    /\ j > Len(programmes)
    /\ i' = i + 1
    /\ pc' = "fetch"
    /\ epg_data' = <<>>
    /\ j' = 1
    /\ UNCHANGED <<urls, catalogue, remaining, valid_tvg_ids, root, results, seen,
                   prov, raised, written>>

\* -------------------------------------------------------- lines 87-94
WriteXmlOk ==
    /\ pc = "write"
    /\ written' = written \cup {"xml"}
    /\ pc' = IF SAVE_AS_GZ THEN "write_gz" ELSE "done"
    /\ UNCHANGED <<urls, catalogue, remaining, valid_tvg_ids, root, i, epg_data, j, results,
                   seen, prov, raised>>

WriteXmlFail ==
    /\ pc = "write"
    /\ pc' = "aborted"
    /\ raised' = "IOError: write"
    /\ UNCHANGED <<urls, catalogue, remaining, valid_tvg_ids, root, i, epg_data, j, results,
                   seen, prov, written>>

WriteGzOk ==
    /\ pc = "write_gz"
    /\ written' = written \cup {"xml.gz"}
    /\ pc' = "done"
    /\ UNCHANGED <<urls, catalogue, remaining, valid_tvg_ids, root, i, epg_data, j, results,
                   seen, prov, raised>>

WriteGzFail ==
    /\ pc = "write_gz"
    /\ pc' = "aborted"
    /\ raised' = "IOError: write"
    /\ UNCHANGED <<urls, catalogue, remaining, valid_tvg_ids, root, i, epg_data, j, results,
                   seen, prov, written>>

Next ==
    \/ LoadOk
    \/ LoadFail
    \/ FetchOk
    \/ FetchTransportError
    \/ FetchDecompressError
    \/ FetchParseError
    \/ UrlsDone
    \/ ChannelAppend
    \/ ChannelSkip
    \/ ChannelsDone
    \/ ProgrammeSkip
    \/ ProgrammeNoTitle
    \/ ProgrammeAppend
    \/ ProgrammeRewrite
    \/ ProgrammeTypeError
    \/ ProgrammesDone
    \/ WriteXmlOk
    \/ WriteXmlFail
    \/ WriteGzOk
    \/ WriteGzFail

Spec == Init /\ [][Next]_vars
SpecTitles == InitTitles /\ [][Next]_vars

\* ------------------------------------------------------------------ claims
Last(s) == s[Len(s)]
AfterLoop == pc \in {"write", "write_gz", "done"}
Appended == Len(root') = Len(root) + 1 /\ SubSeq(root', 1, Len(root)) = root

\* the programme of the current iteration passed the filter of line 75
AtAllowedProgramme ==
    /\ pc = "programmes"
    /\ j <= Len(programmes)
    /\ get(programmes[j], "channel") \in valid_tvg_ids

\* C1: in every state, every element of the output is a channel whose id
\* attribute, or a programme whose channel attribute, is present and in the
\* allow-list.
C1_OnlyAllowListed ==
    \A n \in DOMAIN root :
        LET tvg_id == IF root[n].tag = "channel" THEN get(root[n], "id")
                                                 ELSE get(root[n], "channel")
        IN /\ root[n].tag \in {"channel", "programme"}
           /\ tvg_id # None
           /\ tvg_id \in valid_tvg_ids

\* a source holding a programme without channel attribute has been filtered,
\* and something else of the run was kept
C1_Witness ==
    /\ pc = "programmes"
    /\ j > Len(programmes)
    /\ \E p \in Range(programmes) : get(p, "channel") = None
    /\ root # <<>>

\* C2: an allow-listed programme without title child is appended unmodified.
C2_NoTitleStillAppended ==
    [][(AtAllowedProgramme /\ find(programmes[j], "title") = 0)
          => root' = Append(root, programmes[j])]_vars

\* C3: for an allow-listed programme with a special title and a sub-title
\* node (with a text), the appended title text is title + " " + that text,
\* whether or not the sub-title node has child elements.
C3_SubtitleNodeDecides ==
    [][(/\ AtAllowedProgramme
        /\ find(programmes[j], "title") # 0
        /\ title_text(programmes[j]) \in SpecialTitles
        /\ find(programmes[j], "sub-title") # 0
        /\ programmes[j].children[find(programmes[j], "sub-title")].text # None)
          => /\ Appended
             /\ title_text(Last(root')) =
                  title_text(programmes[j]) \o " "
                  \o programmes[j].children[find(programmes[j], "sub-title")].text]_vars

\* C4: for an allow-listed programme with a special title, the appended title
\* text is title + " No subtitle" when there is no sub-title node, and only then.
C4_PlaceholderIffNoNode ==
    [][(/\ AtAllowedProgramme
        /\ find(programmes[j], "title") # 0
        /\ title_text(programmes[j]) \in SpecialTitles)
          => LET placeholder ==
                     /\ Appended
                     /\ title_text(Last(root')) =
                          title_text(programmes[j]) \o " " \o NoSubtitle
             IN placeholder <=> find(programmes[j], "sub-title") = 0]_vars

\* C5: a fetch that fails appends nothing, raises nothing and moves on to the
\* next source; no element of the output comes from a failed source; every
\* source has been fetched when the loop is left, and a run that reaches its
\* end has written both artifacts.
C5_FailedFetchSkipsSource ==
    /\ [][(/\ pc = "fetch"
           /\ Len(results') = Len(results) + 1
           /\ Last(results') = "failed")
             => /\ root' = root
                /\ raised' = "none"
                /\ written' = written
                /\ pc' = "fetch"
                /\ i' = i + 1]_vars
    /\ [](\A n \in DOMAIN prov : results[prov[n].src] = "ok")
    /\ [](pc = "fetch" => Len(results) = i - 1)
    /\ [](AfterLoop => Len(results) = Len(urls))
    /\ [](pc = "done" => written = {"xml", "xml.gz"})

\* the first source failed, the second one was processed and the run ended
C5_Witness ==
    /\ pc = "done"
    /\ results = <<"failed", "ok">>
    /\ root # <<>>
    /\ \A n \in DOMAIN prov : prov[n].src = 2
    /\ written = {"xml", "xml.gz"}

\* C6: once the loop over the sources is left, the output holds, for every
\* allow-listed id, as many channel elements with that id as the successfully
\* parsed sources held together.
C6_NoDeduplication ==
    AfterLoop =>
        \A id \in valid_tvg_ids :
            Cardinality({n \in DOMAIN root :
                root[n].tag = "channel" /\ get(root[n], "id") = id}) = seen[id]

\* the same url twice in the list, the same channel appended twice
C6_Witness ==
    /\ pc = "done"
    /\ urls = <<GZ, GZ>>
    /\ results = <<"ok", "ok">>
    /\ root = <<ChA, ChA>>
    /\ prov[1].src = 1
    /\ prov[2].src = 2

\* C7: the output is ordered by source, within a source channels come
\* before programmes, each group in document order; the output only grows
\* at its end.
C7_StableOrder ==
    /\ [](/\ Len(prov) = Len(root)
          /\ \A n \in DOMAIN prov : root[n].tag = prov[n].kind
          /\ \A m, n \in DOMAIN prov :
                m < n =>
                    \/ prov[m].src < prov[n].src
                    \/ /\ prov[m].src = prov[n].src
                       /\ prov[m].kind = "channel"
                       /\ prov[n].kind = "programme"
                    \/ /\ prov[m].src = prov[n].src
                       /\ prov[m].kind = prov[n].kind
                       /\ prov[m].pos < prov[n].pos)
    /\ [][root' # root => Appended]_vars

\* two sources, each contributing one channel, the first source's first
C7_Witness ==
    /\ pc = "done"
    /\ root = <<ChA, ChB>>
    /\ prov[1].src = 1
    /\ prov[2].src = 2

\* C8: a step that changes the output appends one element; a channel, and a
\* programme whose title text is not one of the two special titles, is
\* appended as it is in the source; any programme equals its source but for
\* the text of its title.
C8_OnlySpecialTitlesChange ==
    [][root' # root =>
          /\ Appended
          /\ pc \in {"channels", "programmes"}
          /\ pc = "channels" => Last(root') = channels[j]
          /\ pc = "programmes" =>
                LET p == programmes[j]
                    t == find(p, "title")
                IN IF t = 0 THEN Last(root') = p
                   ELSE /\ title_text(p) \notin SpecialTitles => Last(root') = p
                        /\ [Last(root') EXCEPT !.children[t].text = title_text(p)] = p]_vars

\* a programme titled "Regular Show" that has a sub-title with child
\* elements is in the output
C8_Witness ==
    \E n \in DOMAIN root :
        /\ root[n].tag = "programme"
        /\ title_text(root[n]) = "Regular Show"
        /\ truth(root[n], find(root[n], "sub-title"))

\* C9: when loading the allow-list failed, the run is over and nothing was
\* fetched, appended or written.
C9_LoadFailureAborts ==
    raised = "IOError: tvg-ids" =>
        /\ pc = "aborted"
        /\ results = <<>>
        /\ epg_data = <<>>
        /\ root = <<>>
        /\ written = {}

\* the load failed with a source list that is not empty
C9_Witness ==
    /\ raised = "IOError: tvg-ids"
    /\ urls # <<>>

\* C10: no run ends with an exception other than the allow-list load
\* failure and the output write failure.
C10_ProcessingNeverRaises ==
    raised \in {"none", "IOError: tvg-ids", "IOError: write"}
====
